---- MODULE Spec2Model ----
(***************************************************************************)
(* Model of the training and inference scripts of the mask / gender / age  *)
(* image classification repository:                                        *)
(*   train_models.py  three-head training, combined label composition      *)
(*   train_5fold.py   5-fold training loop, get_labels                     *)
(*   train_age.py     age training loop with the joint (fine+coarse) loss  *)
(*   final/test.py    inference                                            *)
(* Each script is a specification of its own over its own variables; the   *)
(* variables of the other scripts stay at their idle values.               *)
(***************************************************************************)
EXTENDS Integers, Sequences, FiniteSets, TLC

VARIABLES
    \* ---- label packing (train_models.py:91, train_5fold.py get_labels)
    label,          \* a combined class index
    triple,         \* <<mask, gender, age>>
    label0,         \* the combined label drawn at the start (history)
    triple0,        \* the triple drawn at the start (history)
    task,           \* args.task of the last get_labels call
    labels_out,     \* what the last get_labels call returned
    hist,           \* the operations applied so far, oldest first
    \* ---- joint age loss (train_age.py:185-197)
    outs,           \* the 11 logits of one sample of the batch
    outs_min,       \* torch.min(outs) over the whole batch
    outs_max,       \* torch.max(outs) over the whole batch
    outs_normal,    \* numerators of the normalized scores
    normal_den,     \* their common denominator max - min (0: the scores are nan)
    final_outs,     \* numerators of the 3 coarse scores
    loss_pc,        \* "idle", "outs", "normal", "final"
    \* ---- inference (final/test.py)
    image_ids,      \* submission.ImageID, the identifier column of info.csv
    model_out,      \* what model(images) returns for the image of each identifier
    all_predictions,\* the prediction list
    loader_idx,     \* number of batches the loader has yielded
    submission_ans, \* the 'ans' column, <<>> while not assigned
    csv_written,    \* whether the submission file has been written
    failed_image,   \* position of the image whose loading raised, 0: none
                    \* (history)
    infer_pc,       \* "idle", "load", "loop", "assign", "write", "done", "failed"
    \* ---- training run (train_age.py train, train_5fold.py train)
    variant,        \* "age" (train_age.py) or "5fold" (train_5fold.py)
    epochs,         \* args.epochs
    batch_size,     \* args.batch_size
    valid_batch_size, \* args.valid_batch_size
    lr_decay_step,  \* args.lr_decay_step
    log_interval,   \* args.log_interval
    train_n,        \* len(train_set)
    val_n,          \* len(val_set)
    train_pc,       \* position in train()
    fold,           \* fold loop variable (0 in train_age.py)
    epoch,          \* epoch loop variable
    idx,            \* training batches consumed in this epoch
    val_idx,        \* validation batches consumed in this epoch
    params,         \* the model parameters: the fold that created the model
                    \* and the optimizer steps applied to it
    lr_halvings,    \* the optimizer's lr is args.lr * 0.5^lr_halvings
    last_epoch,     \* scheduler.last_epoch
    acc_batches,    \* batches summed in loss_value / matches
    logged,         \* the windows of batches logged in this epoch
    inputs_bs,      \* batch dimension of the tensor bound to inputs, 0: unbound
    val_f1,         \* sum of the per-batch macro-F1 scores
    val_acc_items,  \* sum of val_acc_items
    val_loss_items, \* sum of val_loss_items
    val_evals,      \* how often each validation sample was evaluated (history)
    val_wrong,      \* number of wrong predictions in this validation (history)
    best_val_f1,
    best_val_acc,
    best_val_loss,
    best_pth,       \* content of {save_dir}/best.pth
    last_pth,       \* content of {save_dir}/last.pth
    pt_files,       \* the per-epoch files of train_5fold.py, by (fold, epoch)
    run_max_f1,     \* greatest F1 of the validations completed earlier (history)
    best_written,   \* whether this epoch wrote best.pth (history)
    killed_at,      \* position at which the process was terminated
    phase_log,      \* the phases of this fold's epoch loop that started or
                    \* ended, oldest first (history)
    folds_run,      \* the folds whose loop body was entered, oldest first
                    \* (history)
    trained_params, \* the parameters when the last training loop was
                    \* exhausted (history)
    \* ---- gradient steps and name binding of the epoch body
    script,         \* "train_models", "train_age" or "train_5fold"
    n_train,        \* len(train_dataloader)
    n_val,          \* len(val_dataloader)
    n_epochs,       \* args.epochs
    interval,       \* args.log_interval (0 in train_models.py, which has none)
    window,         \* the batches summed in loss_value and matches
    windows_logged, \* the batches behind each logged value of this epoch,
                    \* oldest first (history)
    cur_epoch,      \* the epoch loop variable
    batch_iter,     \* training batches completed in this epoch
    val_iter,       \* validation batches completed in this epoch
    body_pos,       \* statements of the batch body executed for this batch
    bound,          \* the local names that are bound
    grad,           \* per optimizer: the losses summed in its parameters' .grad
    loss_of,        \* per optimizer: the batch its loss tensor comes from
    body_ops,       \* the gradient statements executed for this batch (history)
    steps_taken,    \* every optimizer step with the gradient it applied
                    \* (history)
    epochs_started, \* number of training epochs entered (history)
    ckpt_saved,     \* whether a checkpoint was written
    raised_at,      \* where the uncaught exception was raised
    step_pc,        \* "idle", "epoch", "body", "val", "raised", "done"
    \* ---- increment_path and the run directory
    path_exists,    \* whether {model_dir}/{name} exists
    numbered,       \* the n for which {model_dir}/{name}{n} exists
    parent_num,     \* the number after the first occurrence of the stem in
                    \* model_dir, -1 when model_dir holds no stem + digits
    exist_ok,       \* the exist_ok argument
    save_dir,       \* what increment_path returned
    runs,           \* number of earlier runs of the script
    path_pc,        \* "idle", "call", "returned", "made"
    \* ---- fold loop of train_5fold.py, at the level of the sample indices
    dataset,        \* the sample indices of the dataset
    folded_sets,    \* dataset.split_dataset(): a (train, val) pair per fold
    cv_fold,        \* the fold loop variable
    train_set,      \* the train subset taken for the current fold
    val_set,        \* the validation subset taken for the current fold
    consumed,       \* the (train, val) pairs the loop has taken (history)
    cv_pc           \* "idle", "loop", "body", "done", "crashed"

labelVars == <<label, triple, label0, triple0, task, labels_out, hist>>

lossVars == <<outs, outs_min, outs_max, outs_normal, normal_den, final_outs,
              loss_pc>>

inferVars == <<image_ids, model_out, all_predictions, loader_idx,
               submission_ans, csv_written, failed_image, infer_pc>>

configVars == <<variant, epochs, batch_size, valid_batch_size, lr_decay_step,
                log_interval, train_n, val_n>>

loopVars == <<fold, epoch, idx, val_idx>>

modelVars == <<params, lr_halvings, last_epoch, inputs_bs>>

logVars == <<acc_batches, logged>>

valVars == <<val_f1, val_acc_items, val_loss_items, val_evals, val_wrong>>

bestVars == <<best_val_f1, best_val_acc, best_val_loss>>

fileVars == <<best_pth, last_pth, pt_files>>

histVars == <<run_max_f1, best_written, killed_at>>

phaseVars == <<phase_log, folds_run, trained_params>>

trainVars == <<configVars, train_pc, loopVars, modelVars, logVars, valVars,
               bestVars, fileVars, histVars, phaseVars>>

cvVars == <<dataset, folded_sets, cv_fold, train_set, val_set, consumed, cv_pc>>

stepVars == <<script, n_train, n_val, n_epochs, interval, window,
              windows_logged, cur_epoch, batch_iter,
              val_iter, body_pos, bound, grad, loss_of, body_ops, steps_taken,
              epochs_started, ckpt_saved, raised_at, step_pc>>

pathVars == <<path_exists, numbered, parent_num, exist_ok, save_dir, runs,
              path_pc>>

vars == <<labelVars, lossVars, inferVars, trainVars, cvVars, stepVars,
          pathVars>>

----------------------------------------------------------------------------
(* Bounds *)

MaxOps == 3         \* operations applied to one drawn label / triple
MaxLogit == 1       \* logits are drawn from 0..MaxLogit
MaxImages == 2      \* rows of the identifier table
MaxOutClasses == 2  \* width of the loaded model's output
MaxEpochs == 2      \* args.epochs is drawn from 1..MaxEpochs
MaxDecayStep == 2   \* args.lr_decay_step is drawn from 1..MaxDecayStep
MaxLogInterval == 1 \* args.log_interval is drawn from 1..MaxLogInterval
MaxBatches == 1     \* full batches in the training / validation set
MaxF1 == 2          \* a batch's macro-F1 is q / MaxF1 for q in 0..MaxF1
MaxSamples == 3     \* samples of the dataset in the fold loop
MaxIters == 2       \* len(train_dataloader) is drawn from 0..MaxIters
MaxValIters == 1    \* len(val_dataloader) is drawn from 0..MaxValIters
MaxWindow == 2      \* args.log_interval of the batch loop, from 1..MaxWindow
MaxNum == 2         \* numbered run directories found at the start, 0..MaxNum
MaxRuns == 2        \* runs of the script after the first

----------------------------------------------------------------------------
(* Label packing *)

NumClasses == 18
MaskLabels == 0..2
GenderLabels == 0..1
AgeLabels == 0..2
Tasks == {"all", "mask", "gender", "age"}
None == -1

\* MaskBaseDataset.decode_multi_class
decode_multi_class(multi_class_label) ==
    << (multi_class_label \div 6) % 3,
       (multi_class_label \div 3) % 2,
       multi_class_label % 3 >>

make_real_class_weight2(age_pred, gender_pred, mask_pred) ==
    age_pred + 2 * gender_pred + 6 * mask_pred

make_real_class_mask3(age_pred, gender_pred, mask_pred) ==
    age_pred + 3 * gender_pred + 3 * mask_pred

\* pred = age + 3*gender + 6*mask
make_real_class(age_pred, gender_pred, mask_pred) ==
    age_pred + 3 * gender_pred + 6 * mask_pred

get_labels_swapped(t, labels) ==
    LET decoded == decode_multi_class(labels)
    IN  IF t = "all" THEN labels
        ELSE IF t = "mask" THEN decoded[2]
        ELSE IF t = "gender" THEN decoded[1]
        ELSE IF t = "age" THEN decoded[3]
        ELSE None

get_labels(t, labels) ==
    LET decoded == decode_multi_class(labels)
        mask_labels == decoded[1]
        gender_labels == decoded[2]
        age_labels == decoded[3]
    IN  IF t = "all" THEN labels
        ELSE IF t = "mask" THEN mask_labels
        ELSE IF t = "gender" THEN gender_labels
        ELSE IF t = "age" THEN age_labels
        ELSE None

get_num_classes(t) ==
    IF t = "all" THEN 18
    ELSE IF t = "gender" THEN 2
    ELSE 3

LabelIdle ==
    /\ label = 0
    /\ triple = <<0, 0, 0>>
    /\ label0 = 0
    /\ triple0 = <<0, 0, 0>>
    /\ task = "all"
    /\ labels_out = None
    /\ hist = <<>>

LabelStart ==
    /\ label \in 0..(NumClasses - 1)
    /\ triple \in MaskLabels \X GenderLabels \X AgeLabels
    /\ label0 = label
    /\ triple0 = triple
    /\ task = "all"
    /\ labels_out = None
    /\ hist = <<>>

\* the combined label is split into its three sub-task labels
Decode ==
    /\ Len(hist) < MaxOps
    /\ triple' = decode_multi_class(label)
    /\ hist' = Append(hist, "decode")
    /\ UNCHANGED <<label, label0, triple0, task, labels_out>>
    /\ UNCHANGED <<lossVars, inferVars, trainVars, cvVars, stepVars,
                 pathVars>>

\* the three per-task predictions are packed into one combined class
Compose ==
    /\ Len(hist) < MaxOps
    /\ label' = make_real_class(triple[3], triple[2], triple[1])
    /\ hist' = Append(hist, "compose")
    /\ UNCHANGED <<triple, label0, triple0, task, labels_out>>
    /\ UNCHANGED <<lossVars, inferVars, trainVars, cvVars, stepVars,
                 pathVars>>

\* labels = get_labels(args.task, labels)
GetLabels ==
    /\ Len(hist) < MaxOps
    /\ \E t \in Tasks :
        /\ task' = t
        /\ labels_out' = get_labels(t, label)
    /\ hist' = Append(hist, "get_labels")
    /\ UNCHANGED <<label, triple, label0, triple0>>
    /\ UNCHANGED <<lossVars, inferVars, trainVars, cvVars, stepVars,
                 pathVars>>

LabelNext == Decode \/ Compose \/ GetLabels

----------------------------------------------------------------------------
(* Joint age loss: normalization and coarse re-bucketing of the 11 logits *)

AgeNumClasses == 11
Logits == 0..MaxLogit

RECURSIVE SumSeq(_)
SumSeq(s) == IF s = <<>> THEN 0 ELSE Head(s) + SumSeq(Tail(s))

SeqMin(s) == CHOOSE x \in {s[i] : i \in 1..Len(s)} :
                 \A i \in 1..Len(s) : x <= s[i]
SeqMax(s) == CHOOSE x \in {s[i] : i \in 1..Len(s)} :
                 \A i \in 1..Len(s) : x >= s[i]

\* s[lo:hi] of Python, on a sequence indexed from 0 there and from 1 here
PySlice(s, lo, hi) ==
    LET h == IF hi > Len(s) THEN Len(s) ELSE hi
    IN  SubSeq(s, lo + 1, h)

\* s[-1] of Python
PyLast(s) == s[Len(s)]

\* outs_normal = (outs - min) / (max - min), as numerators over max - min
normalize(o, lo, hi) == [i \in 1..Len(o) |-> o[i] - lo]

\* final_outs = cat(sum(outs_normal[:, :5]), sum(outs_normal[:, 5:11]),
\*                  outs_normal[:, -1])
rebucket(n) ==
    << SumSeq(PySlice(n, 0, 5)),
       SumSeq(PySlice(n, 5, 11)),
       PyLast(n) >>

LossIdle ==
    /\ outs = <<>>
    /\ outs_min = 0
    /\ outs_max = 0
    /\ outs_normal = <<>>
    /\ normal_den = 0
    /\ final_outs = <<>>
    /\ loss_pc = "idle"

\* outs = model(inputs): any logits; the batch minimum and maximum bound them
LossStart ==
    /\ outs \in [1..AgeNumClasses -> Logits]
    /\ outs_min \in Logits
    /\ outs_max \in Logits
    /\ outs_min <= SeqMin(outs)
    /\ outs_max >= SeqMax(outs)
    /\ outs_normal = <<>>
    /\ normal_den = 0
    /\ final_outs = <<>>
    /\ loss_pc = "outs"

Normalize ==
    /\ loss_pc = "outs"
    /\ outs_normal' = normalize(outs, outs_min, outs_max)
    /\ normal_den' = outs_max - outs_min
    /\ loss_pc' = "normal"
    /\ UNCHANGED <<outs, outs_min, outs_max, final_outs>>
    /\ UNCHANGED <<labelVars, inferVars, trainVars, cvVars, stepVars,
                 pathVars>>

ReBucket ==
    /\ loss_pc = "normal"
    /\ final_outs' = rebucket(outs_normal)
    /\ loss_pc' = "final"
    /\ UNCHANGED <<outs, outs_min, outs_max, outs_normal, normal_den>>
    /\ UNCHANGED <<labelVars, inferVars, trainVars, cvVars, stepVars,
                 pathVars>>

LossNext == Normalize \/ ReBucket

----------------------------------------------------------------------------
(* Inference *)

\* pred.argmax(dim=-1): the 0-based index of the first maximal value
argmax(o) ==
    (CHOOSE i \in 1..Len(o) :
        /\ \A j \in 1..Len(o) : o[i] >= o[j]
        /\ \A j \in 1..(i - 1) : o[j] < o[i]) - 1

loader_item_reversed(ids, i) == ids[Len(ids) + 1 - i]

\* DataLoader(dataset, shuffle=False), batch size 1: the i-th batch is the
\* image of the i-th path, image_paths following submission.ImageID
loader_item(ids, i) == ids[i]

InferIdle ==
    /\ image_ids = <<>>
    /\ model_out = <<>>
    /\ all_predictions = <<>>
    /\ loader_idx = 0
    /\ submission_ans = <<>>
    /\ csv_written = FALSE
    /\ failed_image = 0
    /\ infer_pc = "idle"

\* info.csv read, dataset and loader built; the identifiers are named by
\* their row in the table
InferStart ==
    /\ \E n \in 0..MaxImages :
           /\ image_ids = [i \in 1..n |-> i]
           /\ model_out \in [1..n -> [1..MaxOutClasses -> Logits]]
    /\ all_predictions = <<>>
    /\ loader_idx = 0
    /\ submission_ans = <<>>
    /\ csv_written = FALSE
    /\ failed_image = 0
    /\ infer_pc = "load"

\* model = torch.load(...); model.eval(); all_predictions = []
\* torch.load raises unless the file at the path is a pickled model
LoadModel ==
    /\ infer_pc = "load"
    /\ \E loadable \in BOOLEAN :
           infer_pc' = IF loadable THEN "loop" ELSE "failed"
    /\ UNCHANGED <<image_ids, model_out, all_predictions, loader_idx,
                   submission_ans, csv_written, failed_image>>
    /\ UNCHANGED <<labelVars, lossVars, trainVars, cvVars, stepVars,
                 pathVars>>

\* a loop that catches the exception of Image.open and predicts class 0
PredictBatchSkipsFailed ==
    /\ infer_pc = "loop"
    /\ loader_idx < Len(image_ids)
    /\ \E decodable \in BOOLEAN :
         LET id == loader_item(image_ids, loader_idx + 1)
         IN  /\ all_predictions' =
                    Append(all_predictions,
                           IF decodable THEN argmax(model_out[id]) ELSE 0)
             /\ failed_image' =
                    IF decodable THEN failed_image ELSE loader_idx + 1
             /\ loader_idx' = loader_idx + 1
             /\ UNCHANGED infer_pc
    /\ UNCHANGED <<image_ids, model_out, submission_ans, csv_written>>
    /\ UNCHANGED <<labelVars, lossVars, trainVars, cvVars, stepVars,
                 pathVars>>

\* one iteration of  for images in loader; Image.open raises on a file that
\* is missing or cannot be decoded, and nothing catches the exception
PredictBatch ==
    /\ infer_pc = "loop"
    /\ loader_idx < Len(image_ids)
    /\ \E decodable \in BOOLEAN :
         LET id == loader_item(image_ids, loader_idx + 1)
         IN  IF ~decodable
             THEN /\ infer_pc' = "failed"
                  /\ failed_image' = loader_idx + 1
                  /\ UNCHANGED <<all_predictions, loader_idx>>
             ELSE /\ all_predictions' =
                         Append(all_predictions, argmax(model_out[id]))
                  /\ loader_idx' = loader_idx + 1
                  /\ UNCHANGED <<infer_pc, failed_image>>
    /\ UNCHANGED <<image_ids, model_out, submission_ans, csv_written>>
    /\ UNCHANGED <<labelVars, lossVars, trainVars, cvVars, stepVars,
                 pathVars>>

\* the loader is exhausted; submission['ans'] = all_predictions
AssignAns ==
    /\ infer_pc = "loop"
    /\ loader_idx = Len(image_ids)
    /\ IF Len(all_predictions) = Len(image_ids)
       THEN /\ submission_ans' = all_predictions
            /\ infer_pc' = "write"
       ELSE /\ infer_pc' = "failed"
            /\ UNCHANGED submission_ans
    /\ UNCHANGED <<image_ids, model_out, all_predictions, loader_idx,
                   csv_written, failed_image>>
    /\ UNCHANGED <<labelVars, lossVars, trainVars, cvVars, stepVars,
                 pathVars>>

\* submission.to_csv(...)
WriteCsv ==
    /\ infer_pc = "write"
    /\ csv_written' = TRUE
    /\ infer_pc' = "done"
    /\ UNCHANGED <<image_ids, model_out, all_predictions, loader_idx,
                   submission_ans, failed_image>>
    /\ UNCHANGED <<labelVars, lossVars, trainVars, cvVars, stepVars,
                 pathVars>>

InferNext == LoadModel \/ PredictBatch \/ AssignAns \/ WriteCsv

----------------------------------------------------------------------------
(* Training run *)

Variants == {"age", "5fold"}

NumFoldsOneShort(v) == IF v = "5fold" THEN 4 ELSE 1

\* for fold in range(5); train_age.py has the one split
NumFolds(v) == IF v = "5fold" THEN 5 ELSE 1

\* grid_image(train_np, labels, preds, n=11, ...)
GridTrainN == 11

\* grid_image(inputs_np, labels, preds, n=..., ...) of the validation loop
GridValN(v) == IF v = "5fold" THEN 10 ELSE 16

\* len(DataLoader(dataset, batch_size, drop_last=True))
LoaderLen(n, bs) == n \div bs

\* fractions <<numerator, denominator>>, denominator >= 0; <<1, 0>> is np.inf
Inf == <<1, 0>>
FracGT(a, b) == a[1] * b[2] > b[1] * a[2]
FracMax(a, b) == IF FracGT(b, a) THEN b ELSE a
FracMin(a, b) == IF FracGT(a, b) THEN b ELSE a

NoParams == [fold |-> -1, steps |-> 0]
NoFile == [fold |-> -1, epoch |-> -1, steps |-> 0]

TrainIdle ==
    /\ variant = "age"
    /\ epochs = 0
    /\ batch_size = 0
    /\ valid_batch_size = 0
    /\ lr_decay_step = 0
    /\ log_interval = 0
    /\ train_n = 0
    /\ val_n = 0
    /\ train_pc = "idle"
    /\ fold = 0
    /\ epoch = 0
    /\ idx = 0
    /\ val_idx = 0
    /\ params = NoParams
    /\ lr_halvings = 0
    /\ last_epoch = 0
    /\ acc_batches = {}
    /\ logged = <<>>
    /\ inputs_bs = 0
    /\ val_f1 = 0
    /\ val_acc_items = 0
    /\ val_loss_items = 0
    /\ val_evals = <<>>
    /\ val_wrong = 0
    /\ best_val_f1 = <<0, 1>>
    /\ best_val_acc = <<0, 1>>
    /\ best_val_loss = Inf
    /\ best_pth = NoFile
    /\ last_pth = NoFile
    /\ pt_files = {}
    /\ run_max_f1 = <<-1, 1>>
    /\ best_written = FALSE
    /\ killed_at = "none"
    /\ phase_log = <<>>
    /\ folds_run = <<>>
    /\ trained_params = NoParams

\* the arguments are parsed and the dataset is split; nothing has run yet
TrainStart ==
    /\ variant \in Variants
    /\ epochs \in 1..MaxEpochs
    /\ batch_size \in {GridTrainN - 1, GridTrainN}
    /\ valid_batch_size \in {GridValN(variant) - 1, GridValN(variant)}
    /\ lr_decay_step \in 1..MaxDecayStep
    /\ log_interval \in 1..MaxLogInterval
    /\ \E nt \in 0..MaxBatches : train_n = nt * batch_size
    /\ \E nv \in 0..MaxBatches, r \in {0, 1} :
           val_n = nv * valid_batch_size + r
    /\ train_pc = "fold"
    /\ fold = 0
    /\ epoch = 0
    /\ idx = 0
    /\ val_idx = 0
    /\ params = NoParams
    /\ lr_halvings = 0
    /\ last_epoch = 0
    /\ acc_batches = {}
    /\ logged = <<>>
    /\ inputs_bs = 0
    /\ val_f1 = 0
    /\ val_acc_items = 0
    /\ val_loss_items = 0
    /\ val_evals = <<>>
    /\ val_wrong = 0
    /\ best_val_f1 = <<0, 1>>
    /\ best_val_acc = <<0, 1>>
    /\ best_val_loss = Inf
    /\ best_pth = NoFile
    /\ last_pth = NoFile
    /\ pt_files = {}
    /\ run_max_f1 = <<-1, 1>>
    /\ best_written = FALSE
    /\ killed_at = "none"
    /\ phase_log = <<>>
    /\ folds_run = <<>>
    /\ trained_params = NoParams

OtherIdle ==
    UNCHANGED <<labelVars, lossVars, inferVars, cvVars, stepVars, pathVars>>

\* one iteration of the fold loop up to the epoch loop: loaders, a new model,
\* optimizer, scheduler, best trackers
Setup ==
    /\ train_pc = "fold"
    /\ fold < NumFolds(variant)
    /\ params' = [fold |-> fold, steps |-> 0]
    /\ lr_halvings' = 0
    /\ last_epoch' = 0
    /\ best_val_acc' = <<0, 1>>
    /\ best_val_f1' = <<0, 1>>
    /\ best_val_loss' = Inf
    /\ epoch' = 0
    /\ train_pc' = "epoch"
    /\ phase_log' = <<>>
    /\ folds_run' = Append(folds_run, fold)
    /\ UNCHANGED <<configVars, fold, idx, val_idx, inputs_bs, logVars, valVars,
                   fileVars, histVars, trained_params>>
    /\ OtherIdle

\* an entry of phase_log: a phase of epoch e starts or ends, having
\* consumed the given number of batches
Phase(name, edge, e, batches) ==
    [phase |-> name, edge |-> edge, epoch |-> e, batches |-> batches]

\* for epoch in range(args.epochs): model.train(), accumulators reset
EpochStart ==
    /\ train_pc = "epoch"
    /\ epoch < epochs
    /\ idx' = 0
    /\ acc_batches' = {}
    /\ logged' = <<>>
    /\ best_written' = FALSE
    /\ train_pc' = "train"
    /\ phase_log' = Append(phase_log, Phase("TrainEpoch", "start", epoch, 0))
    /\ UNCHANGED <<configVars, fold, epoch, val_idx, modelVars, valVars,
                   bestVars, fileVars, run_max_f1, killed_at, folds_run,
                   trained_params>>
    /\ OtherIdle

\* an epoch loop that is one epoch short: for epoch in range(epochs - 1)
FoldEndOneEpochShort ==
    /\ train_pc = "epoch"
    /\ epoch + 1 = epochs
    /\ IF fold + 1 < NumFolds(variant)
       THEN /\ fold' = fold + 1
            /\ train_pc' = "fold"
       ELSE /\ train_pc' = "done"
            /\ UNCHANGED fold
    /\ UNCHANGED <<configVars, epoch, idx, val_idx, modelVars, logVars, valVars,
                   bestVars, fileVars, histVars, phaseVars>>
    /\ OtherIdle

\* the epoch loop of this fold is exhausted
FoldEnd ==
    /\ train_pc = "epoch"
    /\ epoch = epochs
    /\ IF fold + 1 < NumFolds(variant)
       THEN /\ fold' = fold + 1
            /\ train_pc' = "fold"
       ELSE /\ train_pc' = "done"
            /\ UNCHANGED fold
    /\ UNCHANGED <<configVars, epoch, idx, val_idx, modelVars, logVars, valVars,
                   bestVars, fileVars, histVars, phaseVars>>
    /\ OtherIdle

\* one training batch: zero_grad, forward, loss, backward, optimizer.step,
\* accumulation, and the log with its reset every log_interval batches
TrainBatch ==
    /\ train_pc = "train"
    /\ idx < LoaderLen(train_n, batch_size)
    /\ inputs_bs' = batch_size
    /\ params' = [params EXCEPT !.steps = @ + 1]
    /\ IF (idx + 1) % log_interval = 0
       THEN /\ logged' = Append(logged, acc_batches \cup {idx})
            /\ acc_batches' = {}
       ELSE /\ acc_batches' = acc_batches \cup {idx}
            /\ UNCHANGED logged
    /\ idx' = idx + 1
    /\ UNCHANGED <<configVars, train_pc, fold, epoch, val_idx, lr_halvings,
                   last_epoch, valVars, bestVars, fileVars, histVars,
                   phaseVars>>
    /\ OtherIdle

steplr_halvings_every_step(h, le, step_size) == h + 1

\* StepLR(optimizer, step_size, gamma=0.5).step()
steplr_halvings(h, le, step_size) ==
    IF le % step_size = 0 THEN h + 1 ELSE h

\* the training loader is exhausted: scheduler.step(), the training figure,
\* then the validation loop is entered with its accumulators reset
SchedulerStep ==
    /\ train_pc = "train"
    /\ idx = LoaderLen(train_n, batch_size)
    /\ last_epoch' = last_epoch + 1
    /\ lr_halvings' = steplr_halvings(lr_halvings, last_epoch + 1, lr_decay_step)
    /\ trained_params' = params
    /\ IF inputs_bs = 0 \/ GridTrainN > inputs_bs
       THEN /\ train_pc' = "crashed"
            /\ phase_log' =
                   Append(phase_log, Phase("TrainEpoch", "end", epoch, idx))
            /\ UNCHANGED <<val_idx, valVars>>
       ELSE /\ train_pc' = "val"
            /\ phase_log' =
                   phase_log \o <<Phase("TrainEpoch", "end", epoch, idx),
                                  Phase("ValidateEpoch", "start", epoch, 0)>>
            /\ val_idx' = 0
            /\ val_f1' = 0
            /\ val_acc_items' = 0
            /\ val_loss_items' = 0
            /\ val_evals' = [i \in 1..val_n |-> 0]
            /\ val_wrong' = 0
    /\ UNCHANGED <<configVars, fold, epoch, idx, params, inputs_bs, logVars,
                   bestVars, fileVars, histVars, folds_run>>
    /\ OtherIdle

\* what one validation batch yields: its macro-F1 is q / MaxF1, and the
\* share q / MaxF1 of its predictions is right (all of them exactly when the
\* F1 is 1, none when it is 0)
BatchCorrect(q, vb) == (q * vb) \div MaxF1

BatchLoss(q) == MaxF1 - q

\* the samples of the k-th batch (k from 0) of a loader with shuffle=False
BatchSamples(k, bs) == (k * bs + 1)..((k + 1) * bs)

\* a validation batch that also takes an optimizer step
ValBatchTrains ==
    /\ train_pc = "val"
    /\ val_idx < LoaderLen(val_n, valid_batch_size)
    /\ inputs_bs' = valid_batch_size
    /\ IF val_idx = 0 /\ GridValN(variant) > valid_batch_size
       THEN /\ train_pc' = "crashed"
            /\ UNCHANGED <<val_idx, valVars, params>>
       ELSE \E q \in 0..MaxF1 :
            /\ val_f1' = val_f1 + q
            /\ val_acc_items' = val_acc_items + BatchCorrect(q, valid_batch_size)
            /\ val_loss_items' = val_loss_items + BatchLoss(q)
            /\ val_wrong' = val_wrong
                     + (valid_batch_size - BatchCorrect(q, valid_batch_size))
            /\ val_evals' = [i \in 1..val_n |->
                     IF i \in BatchSamples(val_idx, valid_batch_size)
                     THEN val_evals[i] + 1 ELSE val_evals[i]]
            /\ val_idx' = val_idx + 1
            /\ params' = [params EXCEPT !.steps = @ + 1]
            /\ UNCHANGED train_pc
    /\ UNCHANGED <<configVars, fold, epoch, idx, lr_halvings,
                   last_epoch, logVars, bestVars, fileVars, histVars,
                   phaseVars>>
    /\ OtherIdle

\* one validation batch under torch.no_grad() and model.eval(): forward,
\* argmax, loss / accuracy / F1 accumulated, the results figure on the first
\* batch; no backward and no optimizer step
ValBatch ==
    /\ train_pc = "val"
    /\ val_idx < LoaderLen(val_n, valid_batch_size)
    /\ inputs_bs' = valid_batch_size
    /\ IF val_idx = 0 /\ GridValN(variant) > valid_batch_size
       THEN /\ train_pc' = "crashed"
            /\ UNCHANGED <<val_idx, valVars>>
       ELSE \E q \in 0..MaxF1 :
            /\ val_f1' = val_f1 + q
            /\ val_acc_items' = val_acc_items + BatchCorrect(q, valid_batch_size)
            /\ val_loss_items' = val_loss_items + BatchLoss(q)
            /\ val_wrong' = val_wrong
                     + (valid_batch_size - BatchCorrect(q, valid_batch_size))
            /\ val_evals' = [i \in 1..val_n |->
                     IF i \in BatchSamples(val_idx, valid_batch_size)
                     THEN val_evals[i] + 1 ELSE val_evals[i]]
            /\ val_idx' = val_idx + 1
            /\ UNCHANGED train_pc
    /\ UNCHANGED <<configVars, fold, epoch, idx, params, lr_halvings,
                   last_epoch, logVars, bestVars, fileVars, histVars,
                   phaseVars>>
    /\ OtherIdle

\* the epoch's validation results, as fractions
ValF1 == <<val_f1, LoaderLen(val_n, valid_batch_size) * MaxF1>>
ValLoss == <<val_loss_items, LoaderLen(val_n, valid_batch_size)>>
ValAcc == <<val_acc_items, val_n>>

\* the validation loader is exhausted: averages, best loss and accuracy,
\* and the per-epoch model file of train_5fold.py
ValMetrics ==
    /\ train_pc = "val"
    /\ val_idx = LoaderLen(val_n, valid_batch_size)
    /\ IF LoaderLen(val_n, valid_batch_size) = 0
       THEN /\ train_pc' = "crashed"
            /\ UNCHANGED <<bestVars, fileVars>>
       ELSE /\ best_val_loss' = FracMin(best_val_loss, ValLoss)
            /\ best_val_acc' = FracMax(best_val_acc, ValAcc)
            /\ pt_files' = IF variant = "5fold"
                            THEN pt_files \cup {<<fold, epoch>>}
                            ELSE pt_files
            /\ train_pc' = "save_best"
            /\ UNCHANGED <<best_val_f1, best_pth, last_pth>>
    /\ UNCHANGED <<configVars, loopVars, modelVars, logVars, valVars, histVars,
                   phaseVars>>
    /\ OtherIdle

Checkpoint == [fold |-> params.fold, epoch |-> epoch, steps |-> params.steps]

\* if val_f1 > best_val_f1: torch.save(..., best.pth); best_val_f1 = val_f1
SaveBest ==
    /\ train_pc = "save_best"
    /\ IF FracGT(ValF1, best_val_f1)
       THEN /\ best_pth' = Checkpoint
            /\ best_val_f1' = ValF1
            /\ best_written' = TRUE
       ELSE UNCHANGED <<best_pth, best_val_f1, best_written>>
    /\ train_pc' = "save_last"
    /\ UNCHANGED <<configVars, loopVars, modelVars, logVars, valVars,
                   best_val_acc, best_val_loss, last_pth, pt_files,
                   run_max_f1, killed_at, phaseVars>>
    /\ OtherIdle

SaveLastOnlyWhenBest ==
    /\ train_pc = "save_last"
    /\ last_pth' = IF best_written THEN Checkpoint ELSE last_pth
    /\ run_max_f1' = FracMax(run_max_f1, ValF1)
    /\ epoch' = epoch + 1
    /\ train_pc' = "epoch"
    /\ phase_log' =
           Append(phase_log, Phase("ValidateEpoch", "end", epoch, val_idx))
    /\ UNCHANGED <<configVars, fold, idx, val_idx, modelVars, logVars, valVars,
                   bestVars, best_pth, pt_files, best_written, killed_at,
                   folds_run, trained_params>>
    /\ OtherIdle

\* torch.save(..., last.pth), the validation log; the epoch is over
SaveLast ==
    /\ train_pc = "save_last"
    /\ last_pth' = Checkpoint
    /\ run_max_f1' = FracMax(run_max_f1, ValF1)
    /\ epoch' = epoch + 1
    /\ train_pc' = "epoch"
    /\ phase_log' =
           Append(phase_log, Phase("ValidateEpoch", "end", epoch, val_idx))
    /\ UNCHANGED <<configVars, fold, idx, val_idx, modelVars, logVars, valVars,
                   bestVars, best_pth, pt_files, best_written, killed_at,
                   folds_run, trained_params>>
    /\ OtherIdle

Running == {"fold", "epoch", "train", "val", "save_best", "save_last"}

\* the process is terminated from outside: what is in memory is lost, the
\* files stay as they are
Terminate ==
    /\ train_pc \in Running
    /\ killed_at' = train_pc
    /\ train_pc' = "killed"
    /\ idx' = 0
    /\ val_idx' = 0
    /\ params' = NoParams
    /\ lr_halvings' = 0
    /\ last_epoch' = 0
    /\ inputs_bs' = 0
    /\ acc_batches' = {}
    /\ logged' = <<>>
    /\ val_f1' = 0
    /\ val_acc_items' = 0
    /\ val_loss_items' = 0
    /\ val_evals' = <<>>
    /\ val_wrong' = 0
    /\ best_val_f1' = <<0, 1>>
    /\ best_val_acc' = <<0, 1>>
    /\ best_val_loss' = Inf
    /\ best_written' = FALSE
    /\ trained_params' = NoParams
    /\ UNCHANGED <<configVars, fold, epoch, fileVars, run_max_f1, phase_log,
                   folds_run>>
    /\ OtherIdle

TrainNext ==
    \/ Setup
    \/ EpochStart
    \/ TrainBatch
    \/ SchedulerStep
    \/ ValBatch
    \/ ValMetrics
    \/ SaveBest
    \/ SaveLast
    \/ FoldEnd
    \/ Terminate

----------------------------------------------------------------------------
(* Fold loop of train_5fold.py over the sample indices *)

\* the folds My5foldDataset.split_dataset() makes
SplitFolds == 5

\* My5foldDataset.split_dataset(): every sample is given one fold; a fold's
\* validation subset is its samples, its train subset the other samples
split_dataset(samples, fold_of) ==
    [f \in 0..(SplitFolds - 1) |->
        [train |-> {i \in samples : fold_of[i] # f},
         val   |-> {i \in samples : fold_of[i] = f}]]

CvIdle ==
    /\ dataset = {}
    /\ folded_sets = <<>>
    /\ cv_fold = 0
    /\ train_set = {}
    /\ val_set = {}
    /\ consumed = <<>>
    /\ cv_pc = "idle"

\* folded_sets = dataset.split_dataset()
CvStart ==
    /\ \E S \in 0..MaxSamples : dataset = 1..S
    /\ \E fold_of \in [dataset -> 0..(SplitFolds - 1)] :
           folded_sets = split_dataset(dataset, fold_of)
    /\ cv_fold = 0
    /\ train_set = {}
    /\ val_set = {}
    /\ consumed = <<>>
    /\ cv_pc = "loop"

CvOtherIdle ==
    UNCHANGED <<labelVars, lossVars, inferVars, trainVars, stepVars,
                pathVars>>

\* for fold in range(5): train_set, val_set = folded_sets[fold]
TakeFold ==
    /\ cv_pc = "loop"
    /\ cv_fold < NumFolds("5fold")
    /\ train_set' = folded_sets[cv_fold].train
    /\ val_set' = folded_sets[cv_fold].val
    /\ consumed' = Append(consumed, folded_sets[cv_fold])
    /\ cv_pc' = "body"
    /\ UNCHANGED <<dataset, folded_sets, cv_fold>>
    /\ CvOtherIdle

\* the rest of the loop body (loaders, model, the epochs) runs to its end
FoldBodyEnds ==
    /\ cv_pc = "body"
    /\ cv_fold' = cv_fold + 1
    /\ cv_pc' = "loop"
    /\ UNCHANGED <<dataset, folded_sets, train_set, val_set, consumed>>
    /\ CvOtherIdle

\* the rest of the loop body raises (an empty loader, a figure larger than
\* the batch, ...), which ends the run
FoldBodyRaises ==
    /\ cv_pc = "body"
    /\ cv_pc' = "crashed"
    /\ UNCHANGED <<dataset, folded_sets, cv_fold, train_set, val_set, consumed>>
    /\ CvOtherIdle

\* range(5) is exhausted
FoldLoopEnd ==
    /\ cv_pc = "loop"
    /\ cv_fold = NumFolds("5fold")
    /\ cv_pc' = "done"
    /\ UNCHANGED <<dataset, folded_sets, cv_fold, train_set, val_set, consumed>>
    /\ CvOtherIdle

CvNext == TakeFold \/ FoldBodyEnds \/ FoldBodyRaises \/ FoldLoopEnd

----------------------------------------------------------------------------
(* Gradient steps of the training batches, and the names the epoch body    *)
(* reads: train_models.py (three models, three optimizers) next to the     *)
(* single-optimizer loop of train_age.py and train_5fold.py                *)

Scripts == {"train_models", "train_age", "train_5fold"}

\* the optimizers of a script, named by the model they update
Heads(sc) ==
    IF sc = "train_models" THEN {"age", "gender", "mask"} ELSE {"model"}

Op(op, head) == [op |-> op, head |-> head]

\* the gradient statements of one batch, in program order
BatchBody(sc) ==
    IF sc = "train_models"
    THEN <<Op("forward", "age"), Op("forward", "gender"),
           Op("forward", "mask"),
           Op("zero_grad", "age"), Op("zero_grad", "gender"),
           Op("zero_grad", "mask"),
           Op("backward", "age"), Op("backward", "gender"),
           Op("backward", "mask"),
           Op("step", "age"), Op("step", "gender"), Op("step", "mask")>>
    ELSE <<Op("zero_grad", "model"), Op("forward", "model"),
           Op("backward", "model"), Op("step", "model")>>

\* the models whose parameters the loss of a task depends on: each task's
\* prediction comes from its own model, built by its own get_model call
LossReaches(sc, t) == {t}

\* the local names bound before the epoch loop
SetupBinds(sc) ==
    IF sc = "train_models"
    THEN {"age_model", "gender_model", "mask_model", "criterion",
          "max_val_acc"}
    ELSE {"model", "criterion", "best_val_f1"}

\* the names a training batch binds
BatchBinds(sc) ==
    IF sc = "train_models"
    THEN {"img", "label", "age_pred", "gender_pred", "mask_pred"}
    ELSE {"inputs", "labels", "preds"}

\* the names read after the batch loop, before the validation loop
TailReads(sc) ==
    IF sc = "train_models"
    THEN {"total_acc", "total_age_loss"}
    ELSE {"inputs", "labels", "preds"}

\* the local that sums the macro-F1 of the validation batches
F1Name(sc) == IF sc = "train_age" THEN "score" ELSE "val_f1"

\* the names bound at the head of the epoch and of the validation
EpochBinds(sc) ==
    IF sc = "train_models"
    THEN {"total_acc", "total_age_loss"}
    ELSE {"loss_value", "matches"}

ValInitBinds(sc) ==
    IF sc = "train_models"
    THEN {"total_val_acc"}
    ELSE {"val_loss_items", "val_acc_items", F1Name(sc)}

\* the names a validation batch reads without binding them itself
ValBatchReads(sc) ==
    IF sc = "train_models"
    THEN {"age_model", "gender_model", "mask_model", "y_pred",
          "val_batch_out", "loss_out", "total_val_loss", "total_val_acc"}
    ELSE {"model", "criterion", "val_loss_items", "val_acc_items",
          F1Name(sc)}

ValBatchBinds(sc) ==
    IF sc = "train_models"
    THEN {"img", "label", "age_pred", "gender_pred", "mask_pred", "acc_out"}
    ELSE {"inputs", "labels", "preds"}

\* the names the averages after the validation loop read
ValAvgReads(sc) ==
    IF sc = "train_models"
    THEN {"total_val_loss", "total_val_acc"}
    ELSE {"val_loss_items", "val_acc_items", F1Name(sc)}

ValAvgBinds(sc) ==
    IF sc = "train_models"
    THEN {"avg_val_loss", "avg_val_acc"}
    ELSE {"val_loss", "val_acc"}

\* the names the checkpoint statements read
SaveReads(sc) ==
    IF sc = "train_models"
    THEN {"avg_val_acc", "max_val_acc", "model"}
    ELSE {F1Name(sc), "best_val_f1", "model"}

NoLoss == [epoch |-> -1, batch |-> -1]

StepIdle ==
    /\ script = "none"
    /\ n_train = 0
    /\ n_val = 0
    /\ n_epochs = 0
    /\ interval = 0
    /\ window = {}
    /\ windows_logged = <<>>
    /\ cur_epoch = 0
    /\ batch_iter = 0
    /\ val_iter = 0
    /\ body_pos = 0
    /\ bound = {}
    /\ grad = <<>>
    /\ loss_of = <<>>
    /\ body_ops = <<>>
    /\ steps_taken = <<>>
    /\ epochs_started = 0
    /\ ckpt_saved = FALSE
    /\ raised_at = "none"
    /\ step_pc = "idle"

\* the loaders, the models and the optimizers are built; the parameters
\* have no gradient yet
StepStart ==
    /\ script \in Scripts
    /\ n_train \in 0..MaxIters
    /\ n_val \in 0..MaxValIters
    /\ n_epochs \in 1..MaxEpochs
    /\ interval \in IF script = "train_models" THEN {0} ELSE 1..MaxWindow
    /\ window = {}
    /\ windows_logged = <<>>
    /\ cur_epoch = 0
    /\ batch_iter = 0
    /\ val_iter = 0
    /\ body_pos = 0
    /\ bound = SetupBinds(script)
    /\ grad = [h \in Heads(script) |-> {}]
    /\ loss_of = [h \in Heads(script) |-> NoLoss]
    /\ body_ops = <<>>
    /\ steps_taken = <<>>
    /\ epochs_started = 0
    /\ ckpt_saved = FALSE
    /\ raised_at = "none"
    /\ step_pc = "epoch"

StepOtherIdle ==
    UNCHANGED <<labelVars, lossVars, inferVars, trainVars, cvVars, pathVars>>

\* for epoch in range(args.epochs): the totals are reset
EnterEpoch ==
    /\ step_pc = "epoch"
    /\ cur_epoch < n_epochs
    /\ bound' = bound \cup EpochBinds(script)
    /\ batch_iter' = 0
    /\ body_pos' = 0
    /\ body_ops' = <<>>
    /\ epochs_started' = epochs_started + 1
    /\ window' = {}
    /\ windows_logged' = <<>>
    /\ step_pc' = "body"
    /\ UNCHANGED <<interval, script, n_train, n_val, n_epochs,
                   cur_epoch, val_iter, grad,
                   loss_of, steps_taken, ckpt_saved, raised_at>>
    /\ StepOtherIdle

\* the statement of the batch body that comes next
CurOp == BatchBody(script)[body_pos + 1]

InBody(op) ==
    /\ step_pc = "body"
    /\ batch_iter < n_train
    /\ body_pos < Len(BatchBody(script))
    /\ CurOp.op = op

\* pred = model(img); loss = criterion(pred, target): the loss of this
\* head now comes from the current batch
Forward ==
    /\ InBody("forward")
    /\ loss_of' = [loss_of EXCEPT ![CurOp.head] =
                       [epoch |-> cur_epoch, batch |-> batch_iter]]
    /\ bound' = bound \cup BatchBinds(script)
    /\ body_ops' = Append(body_ops, CurOp)
    /\ body_pos' = body_pos + 1
    /\ UNCHANGED <<interval, script, n_train, n_val, n_epochs,
                   cur_epoch, batch_iter,
                   val_iter, grad, steps_taken, epochs_started, ckpt_saved,
                   raised_at, step_pc>>
    /\ UNCHANGED <<window, windows_logged>>
    /\ StepOtherIdle

\* a zero_grad that leaves the gradients as they are
ZeroGradKeeps ==
    /\ InBody("zero_grad")
    /\ body_ops' = Append(body_ops, CurOp)
    /\ body_pos' = body_pos + 1
    /\ UNCHANGED <<interval, script, n_train, n_val, n_epochs,
                   cur_epoch, batch_iter,
                   val_iter, bound, grad, loss_of, steps_taken, epochs_started,
                   ckpt_saved, raised_at, step_pc>>
    /\ UNCHANGED <<window, windows_logged>>
    /\ StepOtherIdle

\* optimizer.zero_grad(): the gradients of this optimizer's parameters are
\* cleared
ZeroGrad ==
    /\ InBody("zero_grad")
    /\ grad' = [grad EXCEPT ![CurOp.head] = {}]
    /\ body_ops' = Append(body_ops, CurOp)
    /\ body_pos' = body_pos + 1
    /\ UNCHANGED <<interval, script, n_train, n_val, n_epochs,
                   cur_epoch, batch_iter,
                   val_iter, bound, loss_of, steps_taken, epochs_started,
                   ckpt_saved, raised_at, step_pc>>
    /\ UNCHANGED <<window, windows_logged>>
    /\ StepOtherIdle

\* loss.backward(): the gradient of the loss is added to the gradients of
\* the parameters it depends on
Backward ==
    /\ InBody("backward")
    /\ LET t == CurOp.head
           c == [task |-> t, epoch |-> loss_of[t].epoch,
                 batch |-> loss_of[t].batch]
       IN  grad' = [h \in Heads(script) |->
                       IF h \in LossReaches(script, t)
                       THEN grad[h] \cup {c} ELSE grad[h]]
    /\ body_ops' = Append(body_ops, CurOp)
    /\ body_pos' = body_pos + 1
    /\ UNCHANGED <<interval, script, n_train, n_val, n_epochs,
                   cur_epoch, batch_iter,
                   val_iter, bound, loss_of, steps_taken, epochs_started,
                   ckpt_saved, raised_at, step_pc>>
    /\ UNCHANGED <<window, windows_logged>>
    /\ StepOtherIdle

\* optimizer.step(): the parameters of this optimizer move along their
\* gradients
OptimizerStep ==
    /\ InBody("step")
    /\ steps_taken' = Append(steps_taken,
           [head |-> CurOp.head, epoch |-> cur_epoch, batch |-> batch_iter,
            grad |-> grad[CurOp.head]])
    /\ body_ops' = Append(body_ops, CurOp)
    /\ body_pos' = body_pos + 1
    /\ UNCHANGED <<interval, script, n_train, n_val, n_epochs,
                   cur_epoch, batch_iter,
                   val_iter, bound, grad, loss_of, epochs_started, ckpt_saved,
                   raised_at, step_pc>>
    /\ UNCHANGED <<window, windows_logged>>
    /\ StepOtherIdle

\* a log that leaves the accumulators as they are
BatchEndKeepsSums ==
    /\ step_pc = "body"
    /\ batch_iter < n_train
    /\ body_pos = Len(BatchBody(script))
    /\ IF script # "train_models" /\ (batch_iter + 1) % interval = 0
       THEN windows_logged' =
                Append(windows_logged, window \cup {batch_iter})
       ELSE UNCHANGED windows_logged
    /\ window' = window \cup {batch_iter}
    /\ batch_iter' = batch_iter + 1
    /\ body_pos' = 0
    /\ body_ops' = <<>>
    /\ UNCHANGED <<interval, script, n_train, n_val, n_epochs,
                   cur_epoch,
                   val_iter, bound, grad, loss_of, steps_taken, epochs_started,
                   ckpt_saved, raised_at, step_pc>>
    /\ StepOtherIdle

\* the batch's loss and matches are added to the sums; train_age.py and
\* train_5fold.py log the sums every log_interval batches and then set them
\* to 0; the loop takes the next batch
BatchEnd ==
    /\ step_pc = "body"
    /\ batch_iter < n_train
    /\ body_pos = Len(BatchBody(script))
    /\ IF script # "train_models" /\ (batch_iter + 1) % interval = 0
       THEN /\ windows_logged' =
                   Append(windows_logged, window \cup {batch_iter})
            /\ window' = {}
       ELSE /\ window' = window \cup {batch_iter}
            /\ UNCHANGED windows_logged
    /\ batch_iter' = batch_iter + 1
    /\ body_pos' = 0
    /\ body_ops' = <<>>
    /\ UNCHANGED <<interval, script, n_train, n_val, n_epochs,
                   cur_epoch, val_iter,
                   bound, grad, loss_of, steps_taken, epochs_started,
                   ckpt_saved, raised_at, step_pc>>
    /\ StepOtherIdle

\* the batch loop is exhausted: the averages over len(train_dataloader) in
\* train_models.py, scheduler.step() and the training figure in the other
\* two (grid_image raises when the batch is smaller than its grid); then
\* the validation is entered
TrainTail ==
    /\ step_pc = "body"
    /\ batch_iter = n_train
    /\ \E fits \in BOOLEAN :
         IF \/ ~(TailReads(script) \subseteq bound)
            \/ script = "train_models" /\ n_train = 0
            \/ script # "train_models" /\ ~fits
         THEN /\ step_pc' = "raised"
              /\ raised_at' = "train_tail"
              /\ UNCHANGED <<val_iter, bound>>
         ELSE /\ step_pc' = "val"
              /\ val_iter' = 0
              /\ bound' = bound \cup ValInitBinds(script)
              /\ UNCHANGED raised_at
    /\ UNCHANGED <<interval, script, n_train, n_val, n_epochs,
                   cur_epoch, batch_iter,
                   body_pos, grad, loss_of, body_ops, steps_taken,
                   epochs_started, ckpt_saved>>
    /\ UNCHANGED <<window, windows_logged>>
    /\ StepOtherIdle

\* one validation batch under torch.no_grad(): the forward passes, then the
\* accuracy statements; a name that is not bound raises
ValidateBatch ==
    /\ step_pc = "val"
    /\ val_iter < n_val
    /\ \E fits \in BOOLEAN :
         IF \/ ~(ValBatchReads(script) \subseteq bound)
            \/ script # "train_models" /\ val_iter = 0 /\ ~fits
         THEN /\ step_pc' = "raised"
              /\ raised_at' = "val_batch"
              /\ UNCHANGED <<val_iter, bound>>
         ELSE /\ val_iter' = val_iter + 1
              /\ bound' = bound \cup ValBatchBinds(script)
              /\ UNCHANGED <<step_pc, raised_at>>
    /\ UNCHANGED <<interval, script, n_train, n_val, n_epochs,
                   cur_epoch, batch_iter,
                   body_pos, grad, loss_of, body_ops, steps_taken,
                   epochs_started, ckpt_saved>>
    /\ UNCHANGED <<window, windows_logged>>
    /\ StepOtherIdle

\* a validation tail that skips the averages and the checkpoint when they
\* cannot be computed
ValAveragesGuarded ==
    /\ step_pc = "val"
    /\ val_iter = n_val
    /\ cur_epoch' = cur_epoch + 1
    /\ step_pc' = "epoch"
    /\ UNCHANGED <<interval, script, n_train, n_val, n_epochs, batch_iter, val_iter,
                   body_pos, bound, grad, loss_of, body_ops, steps_taken,
                   epochs_started, ckpt_saved, raised_at>>
    /\ UNCHANGED <<window, windows_logged>>
    /\ StepOtherIdle

\* the validation loop is exhausted: the averages over len(val_dataloader),
\* then the checkpoint (train_models.py: when the accuracy improved; the
\* other two write last.pth at every epoch)
ValAverages ==
    /\ step_pc = "val"
    /\ val_iter = n_val
    /\ \E improved \in BOOLEAN :
         LET saves == improved \/ script # "train_models"
             bound_avg == bound \cup ValAvgBinds(script)
         IN  IF ~(ValAvgReads(script) \subseteq bound) \/ n_val = 0
             THEN /\ step_pc' = "raised"
                  /\ raised_at' = "val_averages"
                  /\ UNCHANGED <<cur_epoch, bound, ckpt_saved>>
             ELSE IF saves /\ ~(SaveReads(script) \subseteq bound_avg)
             THEN /\ step_pc' = "raised"
                  /\ raised_at' = "save"
                  /\ bound' = bound_avg
                  /\ UNCHANGED <<cur_epoch, ckpt_saved>>
             ELSE /\ ckpt_saved' = (ckpt_saved \/ saves)
                  /\ bound' = bound_avg
                  /\ cur_epoch' = cur_epoch + 1
                  /\ step_pc' = "epoch"
                  /\ UNCHANGED raised_at
    /\ UNCHANGED <<interval, script, n_train, n_val, n_epochs, batch_iter, val_iter,
                   body_pos, grad, loss_of, body_ops, steps_taken,
                   epochs_started>>
    /\ UNCHANGED <<window, windows_logged>>
    /\ StepOtherIdle

\* the epoch loop is exhausted
RunEnd ==
    /\ step_pc = "epoch"
    /\ cur_epoch = n_epochs
    /\ step_pc' = "done"
    /\ UNCHANGED <<interval, script, n_train, n_val, n_epochs,
                   cur_epoch, batch_iter,
                   val_iter, body_pos, bound, grad, loss_of, body_ops,
                   steps_taken, epochs_started, ckpt_saved, raised_at>>
    /\ UNCHANGED <<window, windows_logged>>
    /\ StepOtherIdle

StepNext ==
    \/ EnterEpoch
    \/ Forward
    \/ ZeroGrad
    \/ Backward
    \/ OptimizerStep
    \/ BatchEnd
    \/ TrainTail
    \/ ValidateBatch
    \/ ValAverages
    \/ RunEnd

----------------------------------------------------------------------------
(* increment_path and the run directory *)

SetMax(S) == CHOOSE m \in S : \A x \in S : x <= m

\* str(path), the path as it was given
Plain == [numbered |-> FALSE, n |-> 0]

\* the numbers [int(m.groups()[0]) for m in matches if m]: re.search takes
\* the first  stem + digits  of each globbed path, which lies in model_dir
\* when model_dir holds one, and is the path's own number otherwise; the
\* path itself is globbed too and has a number only through model_dir
path_numbers(nums, pnum) ==
    IF pnum >= 0 THEN {pnum} ELSE nums

\* increment_path(path, exist_ok)
increment_path(exists, nums, pnum, ok) ==
    IF (exists /\ ok) \/ ~exists
    THEN Plain
    ELSE LET i == path_numbers(nums, pnum)
         IN  [numbered |-> TRUE,
              n |-> IF i # {} THEN SetMax(i) + 1 ELSE 2]

PathIdle ==
    /\ path_exists = FALSE
    /\ numbered = {}
    /\ parent_num = -1
    /\ exist_ok = FALSE
    /\ save_dir = Plain
    /\ runs = 0
    /\ path_pc = "idle"

\* the model directory as a run finds it
PathStart ==
    /\ path_exists \in BOOLEAN
    /\ numbered \in SUBSET (0..MaxNum)
    /\ parent_num \in -1..MaxNum
    /\ exist_ok \in BOOLEAN
    /\ save_dir = Plain
    /\ runs = 0
    /\ path_pc = "call"

PathOtherIdle ==
    UNCHANGED <<labelVars, lossVars, inferVars, trainVars, cvVars, stepVars>>

\* save_dir = increment_path(os.path.join(model_dir, args.name))
IncrementPath ==
    /\ path_pc = "call"
    /\ save_dir' = increment_path(path_exists, numbered, parent_num, exist_ok)
    /\ path_pc' = "returned"
    /\ UNCHANGED <<path_exists, numbered, parent_num, exist_ok, runs>>
    /\ PathOtherIdle

\* SummaryWriter(log_dir=save_dir) creates the directory
MakeDir ==
    /\ path_pc = "returned"
    /\ IF save_dir.numbered
       THEN /\ numbered' = numbered \cup {save_dir.n}
            /\ UNCHANGED path_exists
       ELSE /\ path_exists' = TRUE
            /\ UNCHANGED numbered
    /\ path_pc' = "made"
    /\ UNCHANGED <<parent_num, exist_ok, save_dir, runs>>
    /\ PathOtherIdle

\* the script is run again with the same arguments
NextRun ==
    /\ path_pc = "made"
    /\ runs < MaxRuns
    /\ runs' = runs + 1
    /\ path_pc' = "call"
    /\ UNCHANGED <<path_exists, numbered, parent_num, exist_ok, save_dir>>
    /\ PathOtherIdle

PathNext == IncrementPath \/ MakeDir \/ NextRun

----------------------------------------------------------------------------
(* Specifications *)

LabelInit == LabelStart /\ LossIdle /\ InferIdle /\ TrainIdle /\ CvIdle /\
    StepIdle /\ PathIdle

SpecLabel == LabelInit /\ [][LabelNext]_vars

LossInit == LossStart /\ LabelIdle /\ InferIdle /\ TrainIdle /\ CvIdle /\
    StepIdle /\ PathIdle

SpecLoss == LossInit /\ [][LossNext]_vars

InferInit == InferStart /\ LabelIdle /\ LossIdle /\ TrainIdle /\ CvIdle /\
    StepIdle /\ PathIdle

SpecInfer == InferInit /\ [][InferNext]_vars

TrainInit == TrainStart /\ LabelIdle /\ LossIdle /\ InferIdle /\ CvIdle /\
    StepIdle /\ PathIdle

SpecTrain == TrainInit /\ [][TrainNext]_vars

CvInit == CvStart /\ LabelIdle /\ LossIdle /\ InferIdle /\ TrainIdle /\
    StepIdle /\ PathIdle

SpecFold == CvInit /\ [][CvNext]_vars

StepInit ==
    StepStart /\ LabelIdle /\ LossIdle /\ InferIdle /\ TrainIdle /\ CvIdle /\
    PathIdle

SpecStep == StepInit /\ [][StepNext]_vars

PathInit ==
    PathStart /\ LabelIdle /\ LossIdle /\ InferIdle /\ TrainIdle /\ CvIdle /\
    StepIdle

SpecPath == PathInit /\ [][PathNext]_vars

----------------------------------------------------------------------------
(* Claims on the coarse re-bucketing *)

\* C7: the coarse re-bucketing partitions the indices 0..10 of the normalized
\* scores: bucket 0 sums indices 0..4, bucket 1 sums indices 5..9, bucket 2 is
\* index 10 alone, so that every index contributes to exactly one bucket.
C7_RebucketPartition ==
    loss_pc = "final" =>
        /\ final_outs[1] = SumSeq(SubSeq(outs_normal, 1, 5))
        /\ final_outs[2] = SumSeq(SubSeq(outs_normal, 6, 10))
        /\ final_outs[3] = outs_normal[11]
        /\ SumSeq(final_outs) = SumSeq(outs_normal)

----------------------------------------------------------------------------
(* Claims on the label packing *)

Triples == MaskLabels \X GenderLabels \X AgeLabels

DecodedThenComposed ==
    /\ Len(hist) >= 2
    /\ hist[1] = "decode"
    /\ hist[2] = "compose"

ComposedThenDecoded ==
    /\ Len(hist) >= 2
    /\ hist[1] = "compose"
    /\ hist[2] = "decode"

\* C1: every combined label in 0..17, decomposed into (mask, gender, age)
\* and recomposed as mask*6 + gender*3 + age, is the label it started from.
C1_ComposeDecodeRoundTrip ==
    DecodedThenComposed => label = label0

C1_Witness ==
    /\ DecodedThenComposed
    /\ label0 = 17
    /\ triple = <<2, 1, 2>>

\* C2: every (mask, gender, age) triple, composed as age + 3*gender + 6*mask
\* and decomposed again, is the triple it started from; the combined value is
\* in 0..17 and no other triple composes to it.
C2_DecodeComposeRoundTrip ==
    /\ ComposedThenDecoded => triple = triple0
    /\ (Len(hist) >= 1 /\ hist[1] = "compose") =>
            /\ label \in 0..17
            /\ \A t \in Triples :
                   make_real_class(t[3], t[2], t[1]) = label => t = triple0

C2_Witness ==
    /\ ComposedThenDecoded
    /\ triple0 = <<1, 1, 0>>
    /\ label = 9

\* C3: decomposition is mask-major fixed radix: for a label L in 0..17 the
\* mask is L div 6 (in 0..2), the gender is (L div 3) mod 2 (in 0..1) and the
\* age is L mod 3 (in 0..2); 0 gives (0,0,0), 17 gives (2,1,2), 6 gives (1,0,0).
C3_MaskMajorDecomposition ==
    /\ (Len(hist) >= 1 /\ hist[Len(hist)] = "get_labels") =>
            /\ task = "mask" =>
                   /\ labels_out = label \div 6
                   /\ labels_out \in 0..2
            /\ task = "gender" =>
                   /\ labels_out = (label \div 3) % 2
                   /\ labels_out \in 0..1
            /\ task = "age" =>
                   /\ labels_out = label % 3
                   /\ labels_out \in 0..2
            /\ (label = 0 /\ task # "all") => labels_out = 0
            /\ label = 17 =>
                   labels_out = (CASE task = "mask" -> 2 [] task = "gender" -> 1
                                   [] task = "age" -> 2 [] OTHER -> 17)
            /\ label = 6 =>
                   labels_out = (CASE task = "mask" -> 1 [] task = "gender" -> 0
                                   [] task = "age" -> 0 [] OTHER -> 6)
    /\ (Len(hist) >= 1 /\ hist[Len(hist)] = "decode") =>
            /\ triple = <<label \div 6, (label \div 3) % 2, label % 3>>
            /\ triple \in Triples

C3_Witness ==
    /\ hist = <<"get_labels">>
    /\ label = 6
    /\ task = "mask"
    /\ labels_out = 1

----------------------------------------------------------------------------
(* Claims on inference *)

IsArgmaxOf(p, o) ==
    /\ p \in 0..(Len(o) - 1)
    /\ \A j \in 1..Len(o) : o[p + 1] >= o[j]

AfterInferLoop == infer_pc \in {"write", "done"}

\* C10: inference yields exactly one prediction per image, in the order of
\* the identifier table: after the loop the prediction list is as long as the
\* identifier column and its i-th entry is the argmax of the model output for
\* the i-th image identifier.
C10_OnePredictionPerImageInOrder ==
    /\ AfterInferLoop =>
          /\ Len(all_predictions) = Len(image_ids)
          /\ submission_ans = all_predictions
    /\ infer_pc \in {"loop", "write", "done"} =>
          /\ Len(all_predictions) = loader_idx
          /\ \A i \in 1..Len(all_predictions) :
                 IsArgmaxOf(all_predictions[i], model_out[image_ids[i]])

C10_Witness ==
    /\ infer_pc = "done"
    /\ Len(image_ids) = 2
    /\ model_out[1] = <<0, 1>>
    /\ model_out[2] = <<1, 1>>
    /\ all_predictions = <<1, 0>>

\* C11: inference has no partial-failure handling: when the loading of any
\* single image fails the whole run fails and no prediction file is written;
\* the file is written only after every image has been predicted.
C11_NoPartialFailureHandling ==
    /\ failed_image # 0 =>
          /\ infer_pc = "failed"
          /\ ~csv_written
          /\ submission_ans = <<>>
    /\ csv_written =>
          /\ failed_image = 0
          /\ loader_idx = Len(image_ids)
          /\ Len(all_predictions) = Len(image_ids)

C11_Witness ==
    /\ failed_image = 2
    /\ Len(all_predictions) = 1
    /\ infer_pc = "failed"
    /\ ~csv_written

----------------------------------------------------------------------------
(* Claims on the training run *)

\* C5: best.pth is overwritten at an epoch only when that epoch's validation
\* macro-F1 is strictly greater than every macro-F1 observed at the earlier
\* epochs of the run; an epoch with an equal or lower F1 leaves it unchanged.
C5_BestOnlyOnStrictImprovement ==
    train_pc = "save_last" =>
        (best_written => FracGT(ValF1, run_max_f1))

InEpoch == {"train", "val", "save_best", "save_last"}

\* C6: after every completed epoch last.pth holds the parameters as they are
\* at the end of that epoch, whether or not the F1 improved; while epoch e >= 1
\* is under way, and when the process is terminated during it, last.pth holds
\* the parameters of the end of epoch e-1.
C6_LastIsMostRecentEpoch ==
    /\ (train_pc \in {"epoch", "fold", "done"} /\ epoch >= 1) =>
           last_pth = [fold |-> params.fold, epoch |-> epoch - 1,
                       steps |-> params.steps]
    /\ ((train_pc \in InEpoch \/ (train_pc = "killed" /\ killed_at \in InEpoch))
          /\ epoch >= 1) =>
           last_pth = [fold |-> fold, epoch |-> epoch - 1,
                       steps |-> epoch * LoaderLen(train_n, batch_size)]

C6_Witness ==
    /\ train_pc = "killed"
    /\ killed_at = "val"
    /\ epoch = 1
    /\ last_pth.epoch = 0
    /\ last_pth.steps = 1
    /\ best_pth = NoFile

\* C8: the learning rate is stepped once per epoch, after the epoch's training
\* batches; the rate used by the batches of epoch e is the initial rate halved
\* floor(e / lr_decay_step) times, whatever the validation results were.
C8_LrFixedStepSchedule ==
    /\ train_pc = "train" =>
           /\ last_epoch = epoch
           /\ lr_halvings = epoch \div lr_decay_step
    /\ train_pc \in {"val", "save_best", "save_last"} =>
           last_epoch = epoch + 1

C8_Witness ==
    /\ train_pc = "train"
    /\ epoch = 1
    /\ idx = 1
    /\ lr_decay_step = 1
    /\ lr_halvings = 1
    /\ run_max_f1 = <<MaxF1, MaxF1>>

\* C9: a ValidateEpoch evaluates every sample of the validation subset exactly
\* once, and its accuracy, correct predictions / len(val_set), is 1 exactly
\* when every validation sample is predicted correctly.
C9_FullValidationAccuracy ==
    train_pc = "save_best" =>
        /\ \A i \in 1..val_n : val_evals[i] = 1
        /\ (val_acc_items = val_n) <=> (val_wrong = 0)

\* the i-th phase event of a fold whose epochs all complete
ExpectedPhase(i) ==
    LET e == (i - 1) \div 4
        k == (i - 1) % 4
    IN  CASE k = 0 -> Phase("TrainEpoch", "start", e, 0)
          [] k = 1 -> Phase("TrainEpoch", "end", e,
                            LoaderLen(train_n, batch_size))
          [] k = 2 -> Phase("ValidateEpoch", "start", e, 0)
          [] k = 3 -> Phase("ValidateEpoch", "end", e,
                            LoaderLen(val_n, valid_batch_size))

\* C13: a run follows Init -> (TrainEpoch -> ValidateEpoch) x N -> Done for
\* N = epochs (per fold in the 5-fold script, the folds 0..4 in order): the
\* e-th ValidateEpoch starts only after the e-th TrainEpoch consumed all its
\* batches, no TrainEpoch starts before the previous ValidateEpoch finished,
\* and the fold loop is left exactly when N TrainEpochs and N ValidateEpochs
\* have run; Done follows the N-th ValidateEpoch of the last fold.
C13_TrainValidateAlternation ==
    /\ Len(phase_log) <= 4 * epochs
    /\ \A i \in 1..Len(phase_log) : phase_log[i] = ExpectedPhase(i)
    /\ folds_run = [i \in 1..Len(folds_run) |-> i - 1]
    /\ (train_pc = "epoch" /\ epoch = epochs) <=>
          (train_pc \in InEpoch \cup {"epoch"} /\ Len(phase_log) = 4 * epochs)
    /\ (train_pc = "fold" /\ fold > 0) =>
          /\ Len(phase_log) = 4 * epochs
          /\ Len(folds_run) = fold
    /\ train_pc = "done" =>
          /\ Len(phase_log) = 4 * epochs
          /\ Len(folds_run) = NumFolds(variant)

C13_Witness ==
    /\ train_pc = "done"
    /\ variant = "5fold"
    /\ epochs = 2
    /\ Len(folds_run) = 5
    /\ Len(phase_log) = 8
    /\ phase_log[2].batches = 1

\* C14: ValidateEpoch changes no model parameter and takes no optimizer
\* step: throughout the validation and the saving the parameters are those
\* the preceding TrainEpoch ended with, so the weights written to best.pth
\* and last.pth are exactly the ones that epoch's training produced.
C14_ValidationLeavesParameters ==
    /\ train_pc \in {"val", "save_best", "save_last"} =>
          params = trained_params
    /\ (train_pc \in {"save_last", "epoch"} /\ best_written) =>
          /\ best_pth.fold = trained_params.fold
          /\ best_pth.steps = trained_params.steps
    /\ (train_pc = "epoch" /\ epoch > 0) =>
          /\ params = trained_params
          /\ last_pth.fold = trained_params.fold
          /\ last_pth.steps = trained_params.steps

C14_Witness ==
    /\ train_pc = "epoch"
    /\ epoch = 2
    /\ val_idx = 1
    /\ best_written
    /\ trained_params.steps = 2
    /\ best_pth.steps = 2
    /\ last_pth.steps = 2

\* C19: in the 5-fold script best.pth, one file shared by all folds, holds
\* at every point the weights of the (fold, epoch) with the greatest
\* validation macro-F1 among all validations completed so far: an epoch
\* writes it only when its F1 is not below the greatest F1 validated
\* earlier in the run, in this fold or a previous one, and always when its
\* F1 is above it.
C19_BestHoldsRunMaximum ==
    (variant = "5fold" /\ train_pc = "save_last") =>
        /\ best_written => ~FracGT(run_max_f1, ValF1)
        /\ (FracGT(ValF1, run_max_f1) /\ val_f1 > 0) => best_written

----------------------------------------------------------------------------
(* Claims on the fold loop *)

\* C4: within each fold taken by the fold loop the train and validation index
\* sets are disjoint, no sample is in the validation subsets of two folds, and
\* once the five folds have been taken every sample index is in exactly one
\* validation subset.
C4_FoldsPartitionSamples ==
    /\ \A k \in 1..Len(consumed) :
           consumed[k].train \cap consumed[k].val = {}
    /\ \A j, k \in 1..Len(consumed) :
           j # k => consumed[j].val \cap consumed[k].val = {}
    /\ cv_pc = "done" =>
           /\ Len(consumed) = 5
           /\ \A i \in dataset :
                  Cardinality({k \in 1..Len(consumed) : i \in consumed[k].val}) = 1

C4_Witness ==
    /\ cv_pc = "done"
    /\ dataset = 1..3
    /\ consumed[2].val = {3}
    /\ consumed[5].val = {1, 2}
    /\ consumed[5].train = {3}

----------------------------------------------------------------------------
(* Claims on the gradient steps and on the three-head validation *)

\* the optimizer steps taken for batch b of epoch e by the optimizer h
StepsOf(h, e, b) ==
    {i \in 1..Len(steps_taken) :
        /\ steps_taken[i].head = h
        /\ steps_taken[i].epoch = e
        /\ steps_taken[i].batch = b}

\* the reset / backward / step statements executed on h for this batch
GradOpsOf(h) ==
    LET Test(o) == o.head = h /\ o.op \in {"zero_grad", "backward", "step"}
        sel == SelectSeq(body_ops, Test)
    IN  [i \in 1..Len(sel) |-> sel[i].op]

GradOrder == <<"zero_grad", "backward", "step">>

\* C15: within a TrainEpoch every mini-batch gets exactly one gradient
\* reset, one backward pass and one optimizer step per optimizer, in the
\* order zero_grad, backward, step, and no gradient of an earlier batch is
\* accumulated; in the three-head script each of the age, gender and mask
\* optimizers steps once per batch on the gradient of its own task's loss
\* only.
C15_OneResetBackwardStepPerBatch ==
    /\ \A h \in Heads(script) :
          /\ Len(GradOpsOf(h)) <= 3
          /\ GradOpsOf(h) = SubSeq(GradOrder, 1, Len(GradOpsOf(h)))
          /\ (step_pc = "body" /\ body_pos = Len(BatchBody(script))) =>
                /\ GradOpsOf(h) = GradOrder
                /\ Cardinality(StepsOf(h, cur_epoch, batch_iter)) = 1
          /\ \A e \in 0..(cur_epoch - 1), b \in 0..(n_train - 1) :
                Cardinality(StepsOf(h, e, b)) = 1
          /\ step_pc \in {"body", "val", "raised"} =>
                \A b \in 0..(batch_iter - 1) :
                    Cardinality(StepsOf(h, cur_epoch, b)) = 1
    /\ \A i \in 1..Len(steps_taken) :
          /\ steps_taken[i].head \in Heads(script)
          /\ steps_taken[i].grad =
                {[task |-> steps_taken[i].head,
                  epoch |-> steps_taken[i].epoch,
                  batch |-> steps_taken[i].batch]}

C15_Witness ==
    /\ script = "train_models"
    /\ step_pc = "body"
    /\ batch_iter = 1
    /\ body_pos = Len(BatchBody(script))
    /\ Len(steps_taken) = 6
    /\ steps_taken[6].head = "mask"
    /\ steps_taken[6].grad = {[task |-> "mask", epoch |-> 0, batch |-> 1]}

\* C17: the validation path of the three-head script does not work: with a
\* non-empty training loader and epochs >= 1 the run completes the first
\* TrainEpoch and then ends with an uncaught error in or right after the
\* first validation phase, so no checkpoint is ever saved and no second
\* TrainEpoch ever starts.
C17_ThreeHeadValidationRaises ==
    /\ []((script = "train_models" /\ n_train > 0) =>
            /\ ~ckpt_saved
            /\ epochs_started <= 1
            /\ step_pc # "done"
            /\ step_pc \in {"val", "raised"} =>
                  /\ cur_epoch = 0
                  /\ batch_iter = n_train
                  /\ Len(steps_taken) = 3 * n_train
            /\ step_pc = "raised" =>
                  raised_at \in {"val_batch", "val_averages"})
    /\ [][(script = "train_models" /\ n_train > 0 /\ step_pc = "val") =>
             step_pc' = "raised"]_vars

C17_Witness ==
    /\ script = "train_models"
    /\ n_train = 2
    /\ n_epochs = 2
    /\ step_pc = "raised"
    /\ raised_at = "val_batch"
    /\ epochs_started = 1
    /\ Len(steps_taken) = 6
    /\ ~ckpt_saved

\* C16: the training metric accumulators are set to zero right after each
\* log, so each logged value sums exactly the log_interval batches since the
\* previous log (or the start of the epoch) and nothing of an earlier
\* window.
C16_LoggedWindowIsLastInterval ==
    script \in {"train_age", "train_5fold"} =>
        /\ \A k \in 1..Len(windows_logged) :
              windows_logged[k] = ((k - 1) * interval)..(k * interval - 1)
        /\ step_pc = "body" =>
              window = (batch_iter - (batch_iter % interval))..(batch_iter - 1)

C16_Witness ==
    /\ script = "train_age"
    /\ interval = 1
    /\ cur_epoch = 1
    /\ Len(windows_logged) = 2
    /\ windows_logged[2] = {1}
    /\ window = {}

\* C20: in every TrainEpoch, for any number of batches and any log_interval,
\* the loss and the match count of each trained batch is part of exactly one
\* logged value; no batch's metrics are dropped without being logged, the
\* batches after the last full window included.
C20_EveryBatchLoggedOnce ==
    (script \in {"train_age", "train_5fold"} /\ step_pc = "val") =>
        \A b \in 0..(batch_iter - 1) :
            Cardinality({k \in 1..Len(windows_logged) :
                            b \in windows_logged[k]}) = 1

----------------------------------------------------------------------------
(* Claims on increment_path *)

\* C18: increment_path returns the path unchanged when it does not exist or
\* exist_ok is true; when the path exists and exist_ok is false it
\* increments as its docstring states, runs/exp to runs/exp0, runs/exp1 and
\* so on, and the returned path never names a directory that already exists.
C18_IncrementPathAsDocumented ==
    path_pc = "returned" =>
        /\ (~path_exists \/ exist_ok) => save_dir = Plain
        /\ (path_exists /\ ~exist_ok) =>
              /\ save_dir.numbered
              /\ save_dir.n \notin numbered
              /\ save_dir.n =
                    IF numbered = {} THEN 0 ELSE SetMax(numbered) + 1

====
